---- MODULE Spec2Model ----
(***************************************************************************)
(* Model of go-multiaddr-dns: the multiaddress resolution engine           *)
(* (Resolver.Resolve, Matches, cross, offset, addrLen in resolve.go) and   *)
(* the fixed-point helper resolveAllDNS of the test suite.                 *)
(*                                                                         *)
(* A multiaddress is a sequence of components [proto, value]; the nil      *)
(* multiaddress is the empty sequence (the split functions of the          *)
(* multiaddr library return nil for an empty part).                        *)
(***************************************************************************)
EXTENDS Integers, Sequences, FiniteSets, TLC

\* ------------------------------------------------------------------ bounds
\* longest input multiaddress, in components
MaxLen == 3
\* longest record list a LookupIPAddr answer carries
MaxRecords == 2
\* longest record list a LookupTXT answer carries
MaxTxt == 2
MaxLabels == 4

\* ------------------------------------------------------------- data model
Nil == "nil"
\* the error value a backend call may return
BackendErr == "backend error"

Comp(p, v) == [proto |-> p, value |-> v]

\* protocol names as registered
Dns4Protocol == "dns4"
Dns6Protocol == "dns6"
DnsaddrProtocol == "dnsaddr"

dnsaddrTXTPrefix == "dnsaddr="

\* components an input multiaddress is built from
Components ==
  {Comp("quic", ""), Comp("http", ""), Comp("dns", "A"), Comp(DnsaddrProtocol, "A")}
    \cup {Comp(Dns4Protocol, "A"), Comp(Dns6Protocol, "A"), Comp(Dns6Protocol, "B")}

RECURSIVE SeqsUpTo(_, _)
SeqsUpTo(S, n) ==
  IF n = 0 THEN {<<>>}
  ELSE LET shorter == SeqsUpTo(S, n - 1)
       IN  shorter \cup {Append(s, x) : s \in {t \in shorter : Len(t) = n - 1}, x \in S}

Addrs == SeqsUpTo(Components, MaxLen)

\* net.IP values: a 4-byte IPv4, a 16-byte IPv4-mapped IPv6, 16-byte IPv6
IPs ==
  {[form |-> "v4", a |-> "a"], [form |-> "v4in6", a |-> "b"],
   [form |-> "v6", a |-> "a"], [form |-> "v6", a |-> "b"]}

\* what a backend call returns: (records, err)
Answer(recs, e) == [records |-> recs, err |-> e]

\* the addresses a host may hold: host A has two IPv4 ones, host B two
\* IPv6 ones, and each has one of the other family
IPsOf(name) ==
  IF name = "A" THEN IPs \ {[form |-> "v6", a |-> "b"]}
  ELSE IPs \ {[form |-> "v4in6", a |-> "b"]}

\* the answers a host may get, per host
IPAnswersOf ==
  [h \in {"A", "B"} |->
     {Answer(recs, Nil) : recs \in SeqsUpTo(IPsOf(h), MaxRecords)}
       \cup {Answer(<<>>, BackendErr)}]

IPAnswers(name) == IPAnswersOf[name]

\* protocol names ma.NewMultiaddr knows
KnownProtocols ==
  {"ip4", "ip6", "quic", "http", "dns", Dns4Protocol, Dns6Protocol, DnsaddrProtocol}

\* TXT records: a literal prefix and the text that follows it, written as
\* the /proto/value pairs it spells ("/foobar" names no known protocol)
TxtRecords ==
  {[prefix |-> dnsaddrTXTPrefix, text |-> <<Comp("ip4", "a"), Comp("quic", ""), Comp("http", "")>>],
   [prefix |-> dnsaddrTXTPrefix, text |-> <<Comp("quic", "")>>],
   [prefix |-> "", text |-> <<Comp("ip4", "a"), Comp("quic", "")>>],
   [prefix |-> dnsaddrTXTPrefix, text |-> <<Comp("foobar", "")>>],
   [prefix |-> dnsaddrTXTPrefix, text |-> <<Comp(Dns4Protocol, "A"), Comp("quic", "")>>]}

TXTAnswers ==
  {Answer(recs, Nil) : recs \in SeqsUpTo(TxtRecords, MaxTxt)} \cup {Answer(<<>>, BackendErr)}

\* ------------------------------------------------------------------ state
VARIABLES
  ipTab,          \* backend: host -> answer of LookupIPAddr, revealed at first lookup
  txtTab,         \* backend: name -> answer of LookupTXT, revealed at first lookup
  input,          \* argument of the running Resolve / Matches call
  maddr,          \* Resolve: the part of the address still to process
  results,        \* Resolve: accumulated results
  pc,             \* "idle", "loop", "done", "matched"
  ret,            \* Resolve: returned list
  err,            \* Resolve: returned error
  lookups,        \* backend calls issued by the running Resolve call, in order
  matches,        \* result of the last Matches call
  allIn,          \* resolveAllDNS: its argument
  toResolve,      \* resolveAllDNS: addresses of the current round
  nextToResolve,  \* resolveAllDNS: addresses of the next round
  outAddrs,       \* resolveAllDNS: collected outputs
  idx,            \* resolveAllDNS: position in toResolve
  allPc,          \* resolveAllDNS: "idle", "inner", "done"
  allErr,         \* resolveAllDNS: returned error
  custom,         \* the dispatcher's routing table: the domains with a backend of their own
  host,           \* Resolver.LookupIPAddr: the name looked up
  lkRet,          \* Resolver.LookupIPAddr: returned records
  lkErr,          \* Resolver.LookupIPAddr: returned error
  lkCalls,        \* Resolver.LookupIPAddr: the backend calls made, in order
  lkParts,        \* Resolver.LookupIPAddr: what parseP2PForgeDomain returned
  lkPc,           \* the dispatcher: "new", "ready", "returned"
  codecIn,        \* the label the codec was last called with
  codecOut,       \* what that call returned
  codecPc,        \* the function called: "none", "v4", "v6", "forge"
  input2,         \* a second Resolve call on the same resolver: its argument
  maddr2,         \* its part of the address still to process
  results2,       \* its accumulated results
  pc2,            \* "idle", "loop", "done"
  ret2,           \* its returned list
  err2            \* its returned error

callVars == <<input, maddr, results, pc, ret, err, lookups, matches>>
allVars == <<allIn, toResolve, nextToResolve, outAddrs, idx, allPc, allErr>>
lookupVars == <<custom, host, lkRet, lkErr, lkCalls, lkParts, lkPc>>
codecVars == <<codecIn, codecOut, codecPc>>
call2Vars == <<input2, maddr2, results2, pc2, ret2, err2>>
vars == <<ipTab, txtTab, input, maddr, results, pc, ret, err, lookups, matches,
          allIn, toResolve, nextToResolve, outAddrs, idx, allPc, allErr,
          custom, host, lkRet, lkErr, lkCalls, lkParts, lkPc,
          codecIn, codecOut, codecPc,
          input2, maddr2, results2, pc2, ret2, err2>>

\* no call is running
InitCalls ==
  /\ input = <<>>
  /\ maddr = <<>>
  /\ results = <<>>
  /\ pc = "idle"
  /\ ret = <<>>
  /\ err = Nil
  /\ lookups = <<>>
  /\ matches = FALSE
  /\ allIn = <<>>
  /\ toResolve = <<>>
  /\ nextToResolve = <<>>
  /\ outAddrs = <<>>
  /\ idx = 1
  /\ allPc = "idle"
  /\ allErr = Nil
  /\ custom = {}
  /\ host = <<>>
  /\ lkRet = <<>>
  /\ lkErr = Nil
  /\ lkCalls = <<>>
  /\ lkParts = <<>>
  /\ lkPc = "new"
  /\ codecIn = <<>>
  /\ codecOut = [fam |-> "none", groups |-> <<>>]
  /\ codecPc = "none"
  /\ input2 = <<>>
  /\ maddr2 = <<>>
  /\ results2 = <<>>
  /\ pc2 = "idle"
  /\ ret2 = <<>>
  /\ err2 = Nil

\* ------------------------------------------------- multiaddress operations
\* mutant: the operands of the concatenation swapped
Encapsulate_Reversed(m, o) == o \o m

\* Multiaddr.Encapsulate: concatenation on the right
Encapsulate(m, o) == m \o o

\* addrLen: number of components, counted with ForEach
addrLen(m) == Len(m)

\* offset: the part of m after its first n components (nil when none is left)
offset(m, n) == SubSeq(m, n + 1, Len(m))

\* the case list of the switch in Matches
MatchesCases == {Dns4Protocol, Dns6Protocol, DnsaddrProtocol}

\* Matches: ForEach over the components, stopping at the first match
Matches(m) == \E i \in DOMAIN m : m[i].proto \in MatchesCases

\* the predicate Resolve hands to SplitFunc
IsResolvable(c) == c.proto \in {Dns4Protocol, Dns6Protocol, DnsaddrProtocol}

\* mutant: the address is split at its last resolvable component
FirstResolvable_Last(m) ==
  IF \E i \in DOMAIN m : IsResolvable(m[i])
  THEN CHOOSE i \in DOMAIN m :
         IsResolvable(m[i]) /\ \A j \in (i + 1)..Len(m) : ~IsResolvable(m[j])
  ELSE Len(m) + 1

\* index of the first component the predicate accepts, Len+1 when none
FirstResolvable(m) ==
  IF \E i \in DOMAIN m : IsResolvable(m[i])
  THEN CHOOSE i \in DOMAIN m :
         IsResolvable(m[i]) /\ \A j \in 1..(i - 1) : ~IsResolvable(m[j])
  ELSE Len(m) + 1

\* ma.SplitFunc(maddr, pred): <<keep, rest>>, rest starts at the first match
SplitFunc(m) ==
  LET k == FirstResolvable(m)
  IN  <<SubSeq(m, 1, k - 1), SubSeq(m, k, Len(m))>>

\* mutant: the kept part is never appended
AppendKeep_Forgets(res, keep) == res

\* "Append the part we're keeping"
AppendKeep(res, keep) ==
  IF keep = <<>> THEN res
  ELSE IF res = <<>> THEN <<keep>>
  ELSE [i \in DOMAIN res |-> Encapsulate(res[i], keep)]

\* cross: for x in a, for y in b, append x.Encapsulate(y)
RECURSIVE crossRow(_, _)
crossRow(x, b) ==
  IF b = <<>> THEN <<>>
  ELSE <<Encapsulate(x, Head(b))>> \o crossRow(x, Tail(b))

\* mutant: the two loops nested the other way round
RECURSIVE cross_BMajor(_, _)
cross_BMajor(a, b) ==
  IF b = <<>> THEN <<>>
  ELSE [i \in DOMAIN a |-> Encapsulate(a[i], Head(b))] \o cross_BMajor(a, Tail(b))

RECURSIVE cross(_, _)
cross(a, b) ==
  IF a = <<>> THEN <<>>
  ELSE crossRow(Head(a), b) \o cross(Tail(a), b)

\* mutant: an empty resolved list is treated like any other
NoneResolved_Never(resolved) == FALSE

\* "len(resolved) == 0": the component resolved to nothing
NoneResolved(resolved) == Len(resolved) = 0

\* mutant: resolved replaces the results instead of multiplying them
Combine_Overwrites(res, resolved) == resolved

\* the tail of the loop body: how resolved joins results (both non-empty
\* or results empty; an empty resolved returns before this)
Combine(res, resolved) ==
  IF Len(res) = 0 THEN resolved ELSE cross(res, resolved)

\* ------------------------------------------------------- dns4 / dns6 branch
\* net.IP.To4: the 4-byte form of an IPv4 or IPv4-mapped address, else nil
NilIP == [form |-> "nil", a |-> ""]

\* mutant: an IPv4-mapped address has no 4-byte form
To4_FourBytesOnly(ip) ==
  IF ip.form = "v4" THEN [form |-> "v4", a |-> ip.a] ELSE NilIP

To4(ip) ==
  IF ip.form \in {"v4", "v4in6"} THEN [form |-> "v4", a |-> ip.a] ELSE NilIP

\* net.IP.String: the text of the address ("<nil>" for no address)
IPString(ip) == IF ip = NilIP THEN "<nil>" ELSE ip.a

\* mutant: no record is skipped
KeepRecord_NoFilter(v4, r) == TRUE

\* the two "continue" tests of the record loop
KeepRecord(v4, r) == IF v4 THEN To4(r) # NilIP ELSE To4(r) = NilIP

\* the multiaddress built for a kept record
RecordAddr(v4, r) ==
  IF v4 THEN <<Comp("ip4", IPString(To4(r)))>>
  ELSE <<Comp("ip6", IPString(r))>>

\* the record loop: the kept records, in the backend's order
ResolveIP(v4, records) ==
  LET kept == SelectSeq(records, LAMBDA r : KeepRecord(v4, r))
  IN  [i \in DOMAIN kept |-> RecordAddr(v4, kept[i])]

\* --------------------------------------------------------- dnsaddr branch
\* strings.HasPrefix(r, dnsaddrTXTPrefix)
HasPrefix(r) == r.prefix = dnsaddrTXTPrefix

\* mutant: every text is taken for a multiaddress
Parses_All(r) == TRUE

\* ma.NewMultiaddr(r[len(prefix):]) fails on text it does not understand
Parses(r) == \A i \in DOMAIN r.text : r.text[i].proto \in KnownProtocols

\* mutant: only the length of the record is compared with the trailer
MatchesTrailer_LengthOnly(rmaddr, trailer) ==
  trailer # <<>> => addrLen(rmaddr) >= addrLen(trailer)

\* the trailer test of one parsed record
MatchesTrailer(rmaddr, trailer) ==
  IF trailer # <<>>
  THEN LET rmlen == addrLen(rmaddr)
           length == addrLen(trailer)
       IN  IF rmlen < length THEN FALSE
           ELSE trailer = offset(rmaddr, rmlen - length)
  ELSE TRUE

\* mutant: the records are not compared with the trailer
ResolveTXT_NoTrailer(records, trailer) ==
  LET sel == SelectSeq(records, LAMBDA r : HasPrefix(r) /\ Parses(r))
  IN  [i \in DOMAIN sel |-> sel[i].text]

RECURSIVE ResolveTXT(_, _)
ResolveTXT(records, trailer) ==
  IF records = <<>> THEN <<>>
  ELSE LET r == Head(records)
           rest == ResolveTXT(Tail(records), trailer)
       IN  IF ~HasPrefix(r) THEN rest
           ELSE IF ~Parses(r) THEN rest
           ELSE IF ~MatchesTrailer(r.text, trailer) THEN rest
           ELSE <<r.text>> \o rest

\* mutant: the trailer stays to be processed after the match
AfterMatch_Keeps(remaining) == remaining

\* "maddr = nil": the match consumes the rest of the address
AfterMatch(remaining) == <<>>

\* the name LookupTXT is called with
TxtName(value) == "_dnsaddr." \o value

\* ---------------------------------------------------------------- backend
\* backend.LookupIPAddr(ctx, name) = ans; the zone data of a name is fixed
\* by its first lookup
IPAnswersFor(name) ==
  IF name \in DOMAIN ipTab THEN {ipTab[name]} ELSE IPAnswers(name)

LookupIPAddr(name, ans) ==
  /\ ans \in IPAnswersFor(name)
  /\ ipTab' = IF name \in DOMAIN ipTab THEN ipTab ELSE ipTab @@ (name :> ans)

\* backend.LookupTXT(ctx, name) = ans
TXTAnswersFor(name) ==
  IF name \in DOMAIN txtTab THEN {txtTab[name]} ELSE TXTAnswers

LookupTXT(name, ans) ==
  /\ ans \in TXTAnswersFor(name)
  /\ txtTab' = IF name \in DOMAIN txtTab THEN txtTab ELSE txtTab @@ (name :> ans)

\* the zone of the test resolver (makeResolver): the TXT records of
\* _dnsaddr.A, in the shapes of the test's records
TestTxtZone ==
  TxtName("A") :>
    Answer(<<[prefix |-> dnsaddrTXTPrefix, text |-> <<Comp("ip4", "a"), Comp("quic", ""), Comp("http", "")>>],
             [prefix |-> dnsaddrTXTPrefix, text |-> <<Comp("quic", "")>>],
             [prefix |-> dnsaddrTXTPrefix, text |-> <<Comp(Dns4Protocol, "A"), Comp("quic", "")>>],
             [prefix |-> "", text |-> <<Comp("ip4", "a"), Comp("quic", "")>>],
             [prefix |-> dnsaddrTXTPrefix, text |-> <<Comp("foobar", "")>>]>>, Nil)

\* and its address records: both families for either host
TestIPZone ==
  ("A" :> Answer(<<[form |-> "v4", a |-> "a"], [form |-> "v4in6", a |-> "b"],
                   [form |-> "v6", a |-> "a"], [form |-> "v6", a |-> "b"]>>, Nil))
    @@ ("B" :> Answer(<<[form |-> "v6", a |-> "a"], [form |-> "v4", a |-> "a"],
                        [form |-> "v6", a |-> "b"]>>, Nil))

\* the address records are whatever the backend answers at the first
\* lookup of a host; the TXT records are those of the test zone
Init ==
  /\ ipTab = <<>>
  /\ txtTab = TestTxtZone
  /\ InitCalls

\* the TXT records are whatever the backend answers at the first lookup
\* of a name; the address records are those of the test zone
InitTxt ==
  /\ ipTab = TestIPZone
  /\ txtTab = <<>>
  /\ InitCalls

\* what the lookup of host name gives: the records of the test
\* zone, none (the mock backend does not hold the name), or a failure
ZoneAnswers(name) ==
  {TestIPZone[name], Answer(<<>>, Nil), Answer(<<>>, BackendErr)}

\* the error of a failed TXT lookup, another value than BackendErr
TxtBackendErr == "txt backend error"

\* what the lookup of the TXT name gives: the records of the test zone,
\* none, or a failure
TxtZoneAnswers ==
  {TestTxtZone[TxtName("A")], Answer(<<>>, Nil), Answer(<<>>, TxtBackendErr)}

\* a zone in which every name is either held as in the test zone, not held,
\* or fails to be looked up
InitZones ==
  /\ \E a \in ZoneAnswers("A"), b \in ZoneAnswers("B") :
       ipTab = ("A" :> a) @@ ("B" :> b)
  /\ \E t \in TxtZoneAnswers : txtTab = (TxtName("A") :> t)
  /\ InitCalls

\* ------------------------------------------------------- Resolver.Resolve
\* mutant: the error of the backend is not handed on
Return_DropsErr(list, e) ==
  /\ pc' = "done"
  /\ ret' = list
  /\ err' = Nil
  /\ maddr' = <<>>
  /\ results' = <<>>

\* "return nil, err" / "return nil, nil" / "return results, nil"
Return(list, e) ==
  /\ pc' = "done"
  /\ ret' = list
  /\ err' = e
  /\ maddr' = <<>>
  /\ results' = <<>>

\* mutant: the resolved component stays in the address
Continue_Stuck(res, remaining) ==
  /\ pc' = "loop"
  /\ results' = res
  /\ maddr' = maddr
  /\ UNCHANGED <<ret, err>>

\* the loop continues with the remaining address, or is left when none
Continue(res, remaining) ==
  /\ pc' = "loop"
  /\ results' = res
  /\ maddr' = remaining
  /\ UNCHANGED <<ret, err>>

\* a caller invokes Resolve(ctx, a), a any address (nil included)
Call ==
  /\ pc = "idle"
  /\ allPc = "idle"
  /\ \E a \in Addrs : input' = a /\ maddr' = a
  /\ results' = <<>>
  /\ pc' = "loop"
  /\ lookups' = <<>>
  /\ UNCHANGED <<ret, err, matches, ipTab, txtTab>>
  /\ UNCHANGED allVars
  /\ UNCHANGED lookupVars
  /\ UNCHANGED codecVars
  /\ UNCHANGED call2Vars

\* mutant: the address left over is returned as a result
LoopExit_ReturnsRest ==
  /\ pc = "loop"
  /\ maddr = <<>>
  /\ pc' = "done"
  /\ ret' = Append(results, maddr)
  /\ err' = Nil
  /\ UNCHANGED <<input, maddr, results, lookups, matches, ipTab, txtTab>>
  /\ UNCHANGED allVars
  /\ UNCHANGED lookupVars
  /\ UNCHANGED codecVars
  /\ UNCHANGED call2Vars

\* the loop condition fails: "return results, nil"
LoopExit ==
  /\ pc = "loop"
  /\ maddr = <<>>
  /\ pc' = "done"
  /\ ret' = results
  /\ err' = Nil
  /\ UNCHANGED <<input, maddr, results, lookups, matches, ipTab, txtTab>>
  /\ UNCHANGED allVars
  /\ UNCHANGED lookupVars
  /\ UNCHANGED codecVars
  /\ UNCHANGED call2Vars

\* an iteration that finds no resolvable component: keep is appended, the
\* loop breaks and the results are returned
IterKeepOnly ==
  /\ pc = "loop"
  /\ maddr # <<>>
  /\ LET sp == SplitFunc(maddr)
     IN  /\ sp[2] = <<>>
         /\ pc' = "done"
         /\ ret' = AppendKeep(results, sp[1])
         /\ err' = Nil
         /\ maddr' = <<>>
         /\ results' = AppendKeep(results, sp[1])
  /\ UNCHANGED <<input, lookups, matches, ipTab, txtTab>>
  /\ UNCHANGED allVars
  /\ UNCHANGED lookupVars
  /\ UNCHANGED codecVars
  /\ UNCHANGED call2Vars

\* an iteration whose resolvable component is dns4 or dns6
IterIP ==
  /\ pc = "loop"
  /\ maddr # <<>>
  /\ LET sp == SplitFunc(maddr)
         res1 == AppendKeep(results, sp[1])
     IN  /\ sp[2] # <<>>
         /\ LET resolve == Head(sp[2])
                remaining == Tail(sp[2])
                v4 == resolve.proto = Dns4Protocol
            IN  /\ resolve.proto \in {Dns4Protocol, Dns6Protocol}
                /\ \E ans \in IPAnswersFor(resolve.value) :
                     /\ LookupIPAddr(resolve.value, ans)
                     /\ lookups' = Append(lookups, [kind |-> "ip", name |-> resolve.value])
                     /\ IF ans.err # Nil THEN Return(<<>>, ans.err)
                        ELSE LET resolved == ResolveIP(v4, ans.records)
                             IN  IF NoneResolved(resolved) THEN Return(<<>>, Nil)
                                 ELSE Continue(Combine(res1, resolved), remaining)
  /\ UNCHANGED <<input, matches, txtTab>>
  /\ UNCHANGED allVars
  /\ UNCHANGED lookupVars
  /\ UNCHANGED codecVars
  /\ UNCHANGED call2Vars

\* an iteration whose resolvable component is dnsaddr: the rest of the
\* address is consumed by the match
IterTXT ==
  /\ pc = "loop"
  /\ maddr # <<>>
  /\ LET sp == SplitFunc(maddr)
         res1 == AppendKeep(results, sp[1])
     IN  /\ sp[2] # <<>>
         /\ LET resolve == Head(sp[2])
                remaining == Tail(sp[2])
            IN  /\ resolve.proto = DnsaddrProtocol
                /\ \E ans \in TXTAnswersFor(TxtName(resolve.value)) :
                     /\ LookupTXT(TxtName(resolve.value), ans)
                     /\ lookups' = Append(lookups, [kind |-> "txt", name |-> TxtName(resolve.value)])
                     /\ IF ans.err # Nil THEN Return(<<>>, ans.err)
                        ELSE LET resolved == ResolveTXT(ans.records, remaining)
                             IN  IF NoneResolved(resolved) THEN Return(<<>>, Nil)
                                 ELSE Continue(Combine(res1, resolved), AfterMatch(remaining))
  /\ UNCHANGED <<input, matches, ipTab>>
  /\ UNCHANGED allVars
  /\ UNCHANGED lookupVars
  /\ UNCHANGED codecVars
  /\ UNCHANGED call2Vars

\* a caller invokes Matches(a) on a non-nil address
CallMatches ==
  /\ pc = "idle"
  /\ allPc = "idle"
  /\ \E a \in Addrs \ {<<>>} : input' = a /\ matches' = Matches(a)
  /\ pc' = "matched"
  /\ UNCHANGED <<maddr, results, ret, err, lookups, ipTab, txtTab>>
  /\ UNCHANGED allVars
  /\ UNCHANGED lookupVars
  /\ UNCHANGED codecVars
  /\ UNCHANGED call2Vars

Next ==
  \/ Call
  \/ CallMatches
  \/ LoopExit
  \/ IterKeepOnly
  \/ IterIP
  \/ IterTXT

Spec == Init /\ [][Next]_vars

SpecTxt == InitTxt /\ [][Next]_vars

SpecZones == InitZones /\ [][Next]_vars

\* a step of a running Resolve call
Running ==
  \/ LoopExit
  \/ IterKeepOnly
  \/ IterIP
  \/ IterTXT

\* Resolve is a sequential function over a backend that answers: a call
\* that has started keeps taking its next step
SpecZonesFair == SpecZones /\ WF_vars(Running)

\* ------------------------------------------------ resolve_static.go: codec
\* A DNS name is the list of its labels (strings.Split(domain, ".")), and a
\* label is the list of its fields between hyphens: "2001-db8--1" is
\* <<"2001", "db8", "", "1">>, "example" is <<"example">>.

\* the fields net.ParseIP reads as a hexadecimal group of 1 to 4 digits
HexValue ==
  ("0" :> 0) @@ ("1" :> 1) @@ ("a" :> 10) @@ ("256" :> 598) @@ ("ffff" :> 65535)
    @@ ("b" :> 11) @@ ("2" :> 2) @@ ("5" :> 5) @@ ("10" :> 16) @@ ("192" :> 402)
    @@ ("255" :> 597) @@ ("2001" :> 8193) @@ ("db8" :> 3512) @@ ("0db8" :> 3512)
    @@ ("85a3" :> 34211) @@ ("8a2e" :> 35374) @@ ("fe80" :> 65152) @@ ("0000" :> 0)
    @@ ("0370" :> 880) @@ ("7334" :> 29492)

\* the fields net.ParseIP reads as a decimal octet of at most 255
DecValue ==
  ("0" :> 0) @@ ("1" :> 1) @@ ("2" :> 2) @@ ("5" :> 5) @@ ("10" :> 10)
    @@ ("192" :> 192) @@ ("255" :> 255)

\* no address (a nil net.IP)
NoIP == [fam |-> "none", groups |-> <<>>]

\* the text after strings.ReplaceAll: the fields with sep between them
Joined(fields, sep) == [sep |-> sep, fields |-> fields]

\* net.ParseIP on a dotted text: four decimal octets
ParseIPv4(f) ==
  IF Len(f) = 4 /\ \A i \in 1..4 : f[i] \in DOMAIN DecValue
  THEN [fam |-> "v4", groups |-> [i \in 1..4 |-> DecValue[f[i]]]]
  ELSE NoIP

\* the groups of a colon text with the zero run "::" at position at (the
\* index of the first group behind it) filled in
FillZeros(gs, at) ==
  [i \in 1..8 |->
     IF i < at THEN HexValue[gs[i]]
     ELSE IF i < at + (8 - Len(gs)) THEN 0
     ELSE HexValue[gs[i - (8 - Len(gs))]]]

\* mutant: every empty field stands for a zero run
ParseIPv6_AnyRuns(f) ==
  LET gs == SelectSeq(f, LAMBDA x : x # "")
      E == {i \in DOMAIN f : f[i] = ""}
      ok == \A i \in DOMAIN gs : gs[i] \in DOMAIN HexValue
  IN  IF E = {}
      THEN IF Len(f) = 8 /\ ok THEN [fam |-> "v6", groups |-> FillZeros(f, 9)] ELSE NoIP
      ELSE IF Len(gs) <= 7 /\ ok
      THEN [fam |-> "v6", groups |-> FillZeros(gs, Len(gs) + 1)]
      ELSE NoIP

\* net.ParseIP on a colon text: eight groups, or fewer with one "::"
\* (an empty field inside, two empty fields at either end)
ParseIPv6(f) ==
  LET k == Len(f)
      E == {i \in 1..k : f[i] = ""}
      ok(gs) == \A i \in DOMAIN gs : gs[i] \in DOMAIN HexValue
  IN  IF E = {}
      THEN IF k = 8 /\ ok(f) THEN [fam |-> "v6", groups |-> FillZeros(f, 9)] ELSE NoIP
      ELSE IF k = 3 /\ E = {1, 2, 3}
      THEN [fam |-> "v6", groups |-> FillZeros(<<>>, 1)]
      ELSE IF k >= 3 /\ E = {1, 2}
      THEN LET gs == SubSeq(f, 3, k)
           IN  IF Len(gs) <= 7 /\ ok(gs)
               THEN [fam |-> "v6", groups |-> FillZeros(gs, 1)] ELSE NoIP
      ELSE IF k >= 3 /\ E = {k - 1, k}
      THEN LET gs == SubSeq(f, 1, k - 2)
           IN  IF Len(gs) <= 7 /\ ok(gs)
               THEN [fam |-> "v6", groups |-> FillZeros(gs, Len(gs) + 1)] ELSE NoIP
      ELSE IF Cardinality(E) = 1 /\ 1 \notin E /\ k \notin E
      THEN LET e == CHOOSE i \in E : TRUE
               gs == SubSeq(f, 1, e - 1) \o SubSeq(f, e + 1, k)
           IN  IF Len(gs) <= 7 /\ ok(gs)
               THEN [fam |-> "v6", groups |-> FillZeros(gs, e)] ELSE NoIP
      ELSE NoIP

\* the fields that are a colon text themselves, and their groups
ColonText ==
  ("::1" :> <<0, 0, 0, 0, 0, 0, 0, 1>>)
    @@ ("::ffff:102:304" :> <<0, 0, 0, 0, 0, 65535, 258, 772>>)

\* a net.IP holds an IPv4 address and the IPv4-mapped IPv6 address of the
\* same octets as the same 16 bytes: both are the IPv4 address here
Canonical(ip) ==
  IF /\ ip.fam = "v6"
     /\ \A i \in 1..5 : ip.groups[i] = 0
     /\ ip.groups[6] = 65535
  THEN [fam |-> "v4",
        groups |-> <<ip.groups[7] \div 256, ip.groups[7] % 256,
                     ip.groups[8] \div 256, ip.groups[8] % 256>>]
  ELSE ip

\* net.ParseIP: a text without separator is an address when the label has
\* the colons of one
ParseIP(s) ==
  IF Len(s.fields) < 2
  THEN IF Len(s.fields) = 1 /\ s.fields[1] \in DOMAIN ColonText
       THEN Canonical([fam |-> "v6", groups |-> ColonText[s.fields[1]]])
       ELSE NoIP
  ELSE IF s.sep = "." THEN ParseIPv4(s.fields)
  ELSE Canonical(ParseIPv6(s.fields))

\* net.IP.To4 is not nil: an IPv4 address, or an IPv4-mapped IPv6 one
IsTo4(ip) ==
  \/ ip.fam = "v4"
  \/ /\ ip.fam = "v6"
     /\ \A i \in 1..5 : ip.groups[i] = 0
     /\ ip.groups[6] = 65535

\* decodeIPv4: hyphens to dots, then an address that is an IPv4 one
decodeIPv4(encoded) ==
  LET ip == ParseIP(Joined(encoded, "."))
  IN  IF ip = NoIP THEN NoIP
      ELSE IF ~IsTo4(ip) THEN NoIP
      ELSE ip

\* mutant: the leading zero stays
TrimLeadingZero_Keeps(encoded) == encoded

\* strings.TrimPrefix(encoded, "0") when encoded starts with "0--"
TrimLeadingZero(encoded) ==
  IF Len(encoded) >= 3 /\ encoded[1] = "0" /\ encoded[2] = ""
  THEN <<"">> \o Tail(encoded)
  ELSE encoded

\* strings.TrimSuffix(encoded, "0") when encoded ends with "--0"
TrimTrailingZero(encoded) ==
  LET k == Len(encoded)
  IN  IF k >= 3 /\ encoded[k] = "0" /\ encoded[k - 1] = ""
      THEN SubSeq(encoded, 1, k - 1) \o <<"">>
      ELSE encoded

\* decodeIPv6: the optional zeros dropped, "--" to "::" and "-" to ":",
\* then an address that is not an IPv4 one
decodeIPv6(encoded) ==
  LET ip == ParseIP(Joined(TrimTrailingZero(TrimLeadingZero(encoded)), ":"))
  IN  IF ip = NoIP THEN NoIP
      ELSE IF IsTo4(ip) THEN NoIP
      ELSE ip

\* ---------------------------------------- resolve_static.go: p2p-forge
minLibp2pPeerIDLength == 42

minP2PForgeDomain == 52

\* base36 CIDv1, libp2p-key, identity multihash of the 23 bytes 01..17: the
\* bytes 01 72 00 17 01 02 .. 17, 42 characters
ShortestKey == "k3bs9tplw01bphp0hq02g11qmg1i4on35jz8o7mk2f"

\* the same of the 22 bytes 01..16: 40 characters
TooShortKey == "kguevphvwb7ime3ig4uu582ckk47r5bku5afpvyu"

\* what cid.Decode makes of the strings of the tests: the codec of the CID,
\* or a failure
CidCodec ==
  ("k51qzi5uqu5dj2c294cab64yiq2ri684kc5sr9odfhoo84osl4resldwfy8u5r" :> "libp2p-key")
    @@ ("k2jmtxw8rjh1z69c6not3wtdxb0u3urbzhyll1t9jg6ox26dhi5sfi1m" :> "dag-pb")
    @@ ("QmTzQ1JRkWErjk39mryYw2WVaphAZNAREyMchXzYQ59eTR" :> "dag-pb")
    @@ (ShortestKey :> "libp2p-key")
    @@ (TooShortKey :> "libp2p-key")

\* the number of characters of a label: its fields and the hyphens
RECURSIVE LabelLen(_)
LabelLen(label) ==
  IF Len(label) = 1 THEN Len(label[1])
  ELSE Len(Head(label)) + 1 + LabelLen(Tail(label))

\* len(domain): the labels and the dots
RECURSIVE DomainLen(_)
DomainLen(parts) ==
  IF parts = <<>> THEN 0
  ELSE IF Len(parts) = 1 THEN LabelLen(parts[1])
  ELSE LabelLen(Head(parts)) + 1 + DomainLen(Tail(parts))

\* isLibp2pPeerID: long enough, a CID, and of the libp2p-key codec
isLibp2pPeerID(s) ==
  IF LabelLen(s) < minLibp2pPeerIDLength THEN FALSE
  ELSE IF ~(Len(s) = 1 /\ s[1] \in DOMAIN CidCodec) THEN FALSE
  ELSE CidCodec[s[1]] = "libp2p-key"

\* no labels ("return nil")
NoParts == <<>>

\* mutant: the peer ID is looked for in every label
parseP2PForgeDomain_AnyLabel(domain) ==
  IF DomainLen(domain) < minP2PForgeDomain THEN NoParts
  ELSE IF Len(domain) < 3 THEN NoParts
  ELSE IF ~\E i \in DOMAIN domain : isLibp2pPeerID(domain[i]) THEN NoParts
  ELSE domain

\* parseP2PForgeDomain: the labels of a domain of the p2p-forge shape
parseP2PForgeDomain(domain) ==
  IF DomainLen(domain) < minP2PForgeDomain THEN NoParts
  ELSE IF Len(domain) < 3 THEN NoParts
  ELSE IF ~isLibp2pPeerID(domain[2]) THEN NoParts
  ELSE domain

\* the net.DNSError of resolveP2PForge
InvalidIPErr == "invalid IP encoding in p2p-forge domain"

\* mutant: a label that decodes as no address is answered all the same
resolveP2PForge_NeverFails(parts) ==
  IF decodeIPv6(parts[1]) # NoIP THEN Answer(<<decodeIPv6(parts[1])>>, Nil)
  ELSE Answer(<<decodeIPv4(parts[1])>>, Nil)

\* mutant: the IPv6 decoding alone is tried
resolveP2PForge_V6Only(parts) ==
  IF decodeIPv6(parts[1]) # NoIP THEN Answer(<<decodeIPv6(parts[1])>>, Nil)
  ELSE Answer(<<>>, InvalidIPErr)

\* mutant: the IPv4 decoding alone is tried
resolveP2PForge_V4Only(parts) ==
  IF decodeIPv4(parts[1]) # NoIP THEN Answer(<<decodeIPv4(parts[1])>>, Nil)
  ELSE Answer(<<>>, InvalidIPErr)

\* resolveP2PForge: the first label decoded, IPv6 first
resolveP2PForge(parts) ==
  IF decodeIPv6(parts[1]) # NoIP THEN Answer(<<decodeIPv6(parts[1])>>, Nil)
  ELSE IF decodeIPv4(parts[1]) # NoIP THEN Answer(<<decodeIPv4(parts[1])>>, Nil)
  ELSE Answer(<<>>, InvalidIPErr)

\* ------------------------------------------------------- the dispatcher
\* the labels of the host names looked up
PeerID == <<"k51qzi5uqu5dj2c294cab64yiq2ri684kc5sr9odfhoo84osl4resldwfy8u5r">>

HostLabels ==
  {<<"custom">>, <<"test">>, <<"more">>, <<"some">>, <<"com">>}
    \cup {PeerID, <<"QmTzQ1JRkWErjk39mryYw2WVaphAZNAREyMchXzYQ59eTR">>}
    \cup {<<"k2jmtxw8rjh1z69c6not3wtdxb0u3urbzhyll1t9jg6ox26dhi5sfi1m">>}
    \cup {<<ShortestKey>>, <<TooShortKey>>}
    \cup {<<"1", "0", "0", "1">>, <<"0", "", "1">>, <<"zz", "1">>}

\* the labels behind the first one: no encoded address, which is read in
\* the first label only
RestLabels == {l \in HostLabels : Len(l) = 1}

\* the host names of up to n labels
Hosts(n) == {<<f>> \o rest : f \in HostLabels, rest \in SeqsUpTo(RestLabels, n - 1)}

\* the domains WithDomainResolver may be given
KeyPool ==
  {<<<<"custom">>, <<"test">>>>, <<<<"more">>, <<"custom">>, <<"test">>>>}

\* the key of the default backend (WithDefaultResolver)
DefaultKey == <<>>

\* the labels of key are the last labels of h
IsLabelSuffix(key, h) ==
  /\ Len(key) <= Len(h)
  /\ SubSeq(h, Len(h) - Len(key) + 1, Len(h)) = key

\* mutant: the shortest matching domain is taken
getResolver_Shortest(table, h) ==
  LET ks == {k \in table : IsLabelSuffix(k, h)}
  IN  IF ks = {} THEN DefaultKey
      ELSE CHOOSE k \in ks : \A o \in ks : Len(k) <= Len(o)

\* the backend that serves h: that of the longest domain whose labels end
\* h, else the default one
getResolver(table, h) ==
  LET ks == {k \in table : IsLabelSuffix(k, h)}
  IN  IF ks = {} THEN DefaultKey
      ELSE CHOOSE k \in ks : \A o \in ks : Len(k) >= Len(o)

\* the names the mock backends hold no record for
NotHeld(h) == h[1] \in {<<"com">>, <<"1", "0", "0", "1">>}

\* the mock backend of domain b: one record of its own for a name it
\* holds, none for another
BackendLookupIPAddr(b, h) ==
  IF NotHeld(h) THEN Answer(<<>>, Nil)
  ELSE Answer(<<[fam |-> "v4", groups |-> <<192, 0, 2, Len(b)>>]>>, Nil)

\* NewResolver(WithDefaultResolver(def), WithDomainResolver(d, b)...)
NewResolver ==
  /\ lkPc = "new"
  /\ \E table \in SUBSET KeyPool : custom' = table
  /\ lkPc' = "ready"
  /\ UNCHANGED <<host, lkRet, lkErr, lkCalls, lkParts, ipTab, txtTab>>
  /\ UNCHANGED callVars
  /\ UNCHANGED allVars
  /\ UNCHANGED codecVars
  /\ UNCHANGED call2Vars

\* Resolver.LookupIPAddr(ctx, h): the p2p-forge name answered offline, any
\* other name (and a p2p-forge name with an undecodable address) handed to
\* the backend of its domain
ResolverLookupIPAddr ==
  /\ lkPc = "ready"
  /\ \E h \in Hosts(MaxLabels) :
       LET parts == parseP2PForgeDomain(h)
           forged == IF parts = NoParts THEN Answer(<<>>, InvalidIPErr)
                     ELSE resolveP2PForge(parts)
           b == getResolver(custom, h)
           ans == BackendLookupIPAddr(b, h)
       IN  /\ host' = h
           /\ lkParts' = parts
           /\ IF parts # NoParts /\ forged.err = Nil
              THEN /\ lkRet' = forged.records
                   /\ lkErr' = Nil
                   /\ lkCalls' = <<>>
              ELSE /\ lkRet' = ans.records
                   /\ lkErr' = ans.err
                   /\ lkCalls' = <<[backend |-> b, name |-> h]>>
  /\ lkPc' = "returned"
  /\ UNCHANGED <<custom, ipTab, txtTab>>
  /\ UNCHANGED callVars
  /\ UNCHANGED allVars
  /\ UNCHANGED codecVars
  /\ UNCHANGED call2Vars

NextLookup ==
  \/ NewResolver
  \/ ResolverLookupIPAddr

InitLookup ==
  /\ ipTab = <<>>
  /\ txtTab = <<>>
  /\ InitCalls

SpecLookup == InitLookup /\ [][NextLookup]_vars

\* ------------------------------------------------------------ codec calls
\* longest label built freely from the fields
MaxFields == 5

\* the fields of the free labels: empty (between two hyphens, or at an
\* end), zero, a decimal and a hexadecimal digit
FreeFields == {"", "0", "1", "a"}

FreeLabels == SeqsUpTo(FreeFields, MaxFields) \ {<<>>}

\* four fields of decimal digits: octets, and 256 which is none
OctetLabels ==
  LET o == {"0", "10", "255", "256"}
  IN  {<<a, b, c, d>> : a \in o, b \in o, c \in o, d \in o}

\* k times the field f
Run(k, f) == [i \in 1..k |-> f]

\* up to eight groups around a zero run written "-" "--", "0--" or "--0",
\* or around none
LongLabels ==
  {Run(h, f) \o z \o Run(t, g) :
     h \in 0..8, t \in 0..8, f \in {"0", "1", "ffff"}, g \in {"0", "1", "ffff"},
     z \in {<<>>, <<"">>, <<"", "">>, <<"0", "">>, <<"", "0">>}} \ {<<>>}

\* the labels of TestDecodeIPv4, TestDecodeIPv6 and the priority tests
TestLabels ==
  {<<"192", "0", "2", "1">>, <<"invalid">>, <<"192", "0", "2">>,
   <<"192", "0", "2", "1", "5">>, <<"2001", "db8", "", "1">>,
   <<"2001", "db8", "85a3", "", "8a2e">>, <<"2001", "db8", "", "0">>,
   <<"2001", "db8", "", "">>, <<"fe80", "0", "0", "0", "0", "0", "0", "1">>,
   <<"2001", "0db8", "85a3", "0000", "0000", "8a2e", "0370", "7334">>,
   <<"10", "0", "0", "1">>, <<"2001", "db8", "", "a", "b">>}

\* labels that are no host name labels: an address as it is written
RawLabels == {<<"::1">>, <<"::ffff:102:304">>}

CodecLabels ==
  FreeLabels \cup OctetLabels \cup {l \in LongLabels : Len(l) <= 10} \cup TestLabels
    \cup RawLabels

\* decodeIPv4(encoded)
CallDecodeIPv4 ==
  /\ codecPc = "none"
  /\ \E l \in CodecLabels :
       /\ codecIn' = l
       /\ codecOut' = decodeIPv4(l)
  /\ codecPc' = "v4"
  /\ UNCHANGED <<ipTab, txtTab>>
  /\ UNCHANGED callVars
  /\ UNCHANGED allVars
  /\ UNCHANGED lookupVars
  /\ UNCHANGED call2Vars

\* decodeIPv6(encoded)
CallDecodeIPv6 ==
  /\ codecPc = "none"
  /\ \E l \in CodecLabels :
       /\ codecIn' = l
       /\ codecOut' = decodeIPv6(l)
  /\ codecPc' = "v6"
  /\ UNCHANGED <<ipTab, txtTab>>
  /\ UNCHANGED callVars
  /\ UNCHANGED allVars
  /\ UNCHANGED lookupVars
  /\ UNCHANGED call2Vars

\* r.resolveP2PForge(ctx, domain, parts), parts the labels of
\* <encoded>.<peer-id>.libp2p.direct
CallResolveP2PForge ==
  /\ codecPc = "none"
  /\ \E l \in CodecLabels :
       /\ codecIn' = l
       /\ codecOut' = resolveP2PForge(<<l, PeerID, <<"libp2p">>, <<"direct">>>>)
  /\ codecPc' = "forge"
  /\ UNCHANGED <<ipTab, txtTab>>
  /\ UNCHANGED callVars
  /\ UNCHANGED allVars
  /\ UNCHANGED lookupVars
  /\ UNCHANGED call2Vars

NextCodec ==
  \/ CallDecodeIPv4
  \/ CallDecodeIPv6
  \/ CallResolveP2PForge

SpecCodec == InitLookup /\ [][NextCodec]_vars

\* ------------------------------------------- two calls on one resolver
\* the addresses two goroutines resolve at the same time
ConcInputs ==
  {<<>>,
   <<Comp(Dns4Protocol, "A")>>,
   <<Comp(Dns6Protocol, "B"), Comp("quic", "")>>,
   <<Comp(Dns4Protocol, "A"), Comp(Dns6Protocol, "B")>>,
   <<Comp("http", ""), Comp(Dns6Protocol, "A"), Comp(Dns4Protocol, "A")>>,
   <<Comp(DnsaddrProtocol, "A"), Comp("quic", "")>>,
   <<Comp("quic", ""), Comp(DnsaddrProtocol, "A")>>}

\* the first goroutine calls r.Resolve(ctx, a)
CallFirst ==
  /\ pc = "idle"
  /\ \E a \in ConcInputs : input' = a /\ maddr' = a
  /\ results' = <<>>
  /\ pc' = "loop"
  /\ lookups' = <<>>
  /\ UNCHANGED <<ret, err, matches, ipTab, txtTab>>
  /\ UNCHANGED allVars
  /\ UNCHANGED lookupVars
  /\ UNCHANGED codecVars
  /\ UNCHANGED call2Vars

\* the first goroutine has its result and is free for another call
FinishFirst ==
  /\ pc = "done"
  /\ pc' = "idle"
  /\ input' = <<>>
  /\ maddr' = <<>>
  /\ results' = <<>>
  /\ ret' = <<>>
  /\ err' = Nil
  /\ lookups' = <<>>
  /\ UNCHANGED <<matches, ipTab, txtTab>>
  /\ UNCHANGED allVars
  /\ UNCHANGED lookupVars
  /\ UNCHANGED codecVars
  /\ UNCHANGED call2Vars

\* the frame of a step of the second goroutine: the resolver, its backend
\* and the locals of the first goroutine
Frame2 ==
  /\ UNCHANGED callVars
  /\ UNCHANGED allVars
  /\ UNCHANGED lookupVars
  /\ UNCHANGED codecVars

Return2(list, e) ==
  /\ pc2' = "done"
  /\ ret2' = list
  /\ err2' = e
  /\ maddr2' = <<>>
  /\ results2' = <<>>

Continue2(res, remaining) ==
  /\ pc2' = "loop"
  /\ results2' = res
  /\ maddr2' = remaining
  /\ UNCHANGED <<ret2, err2>>

\* the second goroutine calls r.Resolve(ctx, a)
CallSecond ==
  /\ pc2 = "idle"
  /\ \E a \in ConcInputs : input2' = a /\ maddr2' = a
  /\ results2' = <<>>
  /\ pc2' = "loop"
  /\ UNCHANGED <<ret2, err2, ipTab, txtTab>>
  /\ Frame2

FinishSecond ==
  /\ pc2 = "done"
  /\ pc2' = "idle"
  /\ input2' = <<>>
  /\ maddr2' = <<>>
  /\ results2' = <<>>
  /\ ret2' = <<>>
  /\ err2' = Nil
  /\ UNCHANGED <<ipTab, txtTab>>
  /\ Frame2

LoopExit2 ==
  /\ pc2 = "loop"
  /\ maddr2 = <<>>
  /\ pc2' = "done"
  /\ ret2' = results2
  /\ err2' = Nil
  /\ UNCHANGED <<input2, maddr2, results2, ipTab, txtTab>>
  /\ Frame2

IterKeepOnly2 ==
  /\ pc2 = "loop"
  /\ maddr2 # <<>>
  /\ LET sp == SplitFunc(maddr2)
     IN  /\ sp[2] = <<>>
         /\ pc2' = "done"
         /\ ret2' = AppendKeep(results2, sp[1])
         /\ err2' = Nil
         /\ maddr2' = <<>>
         /\ results2' = AppendKeep(results2, sp[1])
  /\ UNCHANGED <<input2, ipTab, txtTab>>
  /\ Frame2

\* mutant: the results are a field of the resolver, one for all calls
Results2_Shared == results

\* "var results []ma.Multiaddr": a local of the call
Results2 == results2

IterIP2 ==
  /\ pc2 = "loop"
  /\ maddr2 # <<>>
  /\ LET sp == SplitFunc(maddr2)
         res1 == AppendKeep(Results2, sp[1])
     IN  /\ sp[2] # <<>>
         /\ LET resolve == Head(sp[2])
                remaining == Tail(sp[2])
                v4 == resolve.proto = Dns4Protocol
            IN  /\ resolve.proto \in {Dns4Protocol, Dns6Protocol}
                /\ \E ans \in IPAnswersFor(resolve.value) :
                     /\ LookupIPAddr(resolve.value, ans)
                     /\ IF ans.err # Nil THEN Return2(<<>>, ans.err)
                        ELSE LET resolved == ResolveIP(v4, ans.records)
                             IN  IF NoneResolved(resolved) THEN Return2(<<>>, Nil)
                                 ELSE Continue2(Combine(res1, resolved), remaining)
  /\ UNCHANGED <<input2, txtTab>>
  /\ Frame2

IterTXT2 ==
  /\ pc2 = "loop"
  /\ maddr2 # <<>>
  /\ LET sp == SplitFunc(maddr2)
         res1 == AppendKeep(Results2, sp[1])
     IN  /\ sp[2] # <<>>
         /\ LET resolve == Head(sp[2])
                remaining == Tail(sp[2])
            IN  /\ resolve.proto = DnsaddrProtocol
                /\ \E ans \in TXTAnswersFor(TxtName(resolve.value)) :
                     /\ LookupTXT(TxtName(resolve.value), ans)
                     /\ IF ans.err # Nil THEN Return2(<<>>, ans.err)
                        ELSE LET resolved == ResolveTXT(ans.records, remaining)
                             IN  IF NoneResolved(resolved) THEN Return2(<<>>, Nil)
                                 ELSE Continue2(Combine(res1, resolved), AfterMatch(remaining))
  /\ UNCHANGED <<input2, ipTab>>
  /\ Frame2

NextConc ==
  \/ NewResolver
  \/ CallFirst
  \/ LoopExit
  \/ IterKeepOnly
  \/ IterIP
  \/ IterTXT
  \/ FinishFirst
  \/ CallSecond
  \/ LoopExit2
  \/ IterKeepOnly2
  \/ IterIP2
  \/ IterTXT2
  \/ FinishSecond

\* both goroutines use one resolver over one zone
SpecConc == InitZones /\ [][NextConc]_vars

\* ------------------------------------------- both families of one host
\* one goroutine calls r.Resolve(ctx, /dns4/H)
CallDns4 ==
  /\ pc = "idle"
  /\ \E h \in {"A", "B"} :
       /\ input' = <<Comp(Dns4Protocol, h)>>
       /\ maddr' = <<Comp(Dns4Protocol, h)>>
  /\ results' = <<>>
  /\ pc' = "loop"
  /\ lookups' = <<>>
  /\ UNCHANGED <<ret, err, matches, ipTab, txtTab>>
  /\ UNCHANGED allVars
  /\ UNCHANGED lookupVars
  /\ UNCHANGED codecVars
  /\ UNCHANGED call2Vars

\* another calls r.Resolve(ctx, /dns6/H)
CallDns6 ==
  /\ pc2 = "idle"
  /\ \E h \in {"A", "B"} :
       /\ input2' = <<Comp(Dns6Protocol, h)>>
       /\ maddr2' = <<Comp(Dns6Protocol, h)>>
  /\ results2' = <<>>
  /\ pc2' = "loop"
  /\ UNCHANGED <<ret2, err2, ipTab, txtTab>>
  /\ Frame2

NextFamilies ==
  \/ CallDns4
  \/ LoopExit
  \/ IterIP
  \/ CallDns6
  \/ LoopExit2
  \/ IterIP2

\* the record list of a host is whatever the backend answers first
SpecFamilies == Init /\ [][NextFamilies]_vars

\* ----------------------------------------------------- TestLimitResolver
\* the cap on the number of addresses Resolve returns
maxResolvedAddrs == 100

\* the number of address records the test gives its host
LimitRecords == 255

\* the mock backend of the test: n records net.ParseIP("1.2.3.<i>") for the
\* host, no TXT record
LimitZone(n) ==
  "A" :> Answer([i \in 1..n |-> [form |-> "v4in6", a |-> ToString(i)]], Nil)

InitLimit ==
  /\ \E n \in 0..LimitRecords : ipTab = LimitZone(n)
  /\ txtTab = <<>>
  /\ InitCalls

\* the addresses resolved against that backend: the host alone, and the
\* host before a plain component
LimitInputs ==
  {<<Comp(Dns4Protocol, "A")>>,
   <<Comp(Dns4Protocol, "A"), Comp("quic", "")>>}

\* resolver.Resolve(context.Background(), a)
CallLimit ==
  /\ pc = "idle"
  /\ allPc = "idle"
  /\ \E a \in LimitInputs : input' = a /\ maddr' = a
  /\ results' = <<>>
  /\ pc' = "loop"
  /\ lookups' = <<>>
  /\ UNCHANGED <<ret, err, matches, ipTab, txtTab>>
  /\ UNCHANGED allVars
  /\ UNCHANGED lookupVars
  /\ UNCHANGED codecVars
  /\ UNCHANGED call2Vars

NextLimit ==
  \/ CallLimit
  \/ LoopExit
  \/ IterKeepOnly
  \/ IterIP

SpecLimit == InitLimit /\ [][NextLimit]_vars

\* ---------------------------------------------------------- resolveAllDNS
\* the addresses of list l that Matches accepts / rejects, in order
Matching(l) == SelectSeq(l, LAMBDA a : Matches(a))

\* mutant: only the first final address of a call is collected
NonMatching_FirstOnly(l) ==
  LET sel == SelectSeq(l, LAMBDA a : ~Matches(a))
  IN  IF sel = <<>> THEN <<>> ELSE <<Head(sel)>>

NonMatching(l) == SelectSeq(l, LAMBDA a : ~Matches(a))

\* resolveAllDNS(ctx, resolver, in): an address that does not match is
\* returned as it is, any other starts the first round
AllStart ==
  /\ allPc = "idle"
  /\ pc = "idle"
  /\ \E in \in Addrs \ {<<>>} :
       /\ allIn' = in
       /\ IF ~Matches(in)
          THEN /\ outAddrs' = <<in>>
               /\ toResolve' = <<>>
               /\ allPc' = "done"
          ELSE /\ outAddrs' = <<>>
               /\ toResolve' = <<in>>
               /\ allPc' = "inner"
  /\ nextToResolve' = <<>>
  /\ idx' = 1
  /\ allErr' = Nil
  /\ UNCHANGED <<ipTab, txtTab>>
  /\ UNCHANGED callVars
  /\ UNCHANGED lookupVars
  /\ UNCHANGED codecVars
  /\ UNCHANGED call2Vars

\* the inner loop calls resolver.Resolve(ctx, a) for the next address
AllCall ==
  /\ allPc = "inner"
  /\ pc = "idle"
  /\ idx <= Len(toResolve)
  /\ input' = toResolve[idx]
  /\ maddr' = toResolve[idx]
  /\ results' = <<>>
  /\ pc' = "loop"
  /\ lookups' = <<>>
  /\ UNCHANGED <<ret, err, matches, ipTab, txtTab>>
  /\ UNCHANGED allVars
  /\ UNCHANGED lookupVars
  /\ UNCHANGED codecVars
  /\ UNCHANGED call2Vars

\* Resolve has returned: an error ends resolveAllDNS, otherwise each
\* address goes to the next round or to the output
AllCollect ==
  /\ allPc = "inner"
  /\ pc = "done"
  /\ IF err # Nil
     THEN /\ allPc' = "done"
          /\ allErr' = err
          /\ outAddrs' = <<>>
          /\ UNCHANGED <<nextToResolve, idx>>
     ELSE /\ nextToResolve' = nextToResolve \o Matching(ret)
          /\ outAddrs' = outAddrs \o NonMatching(ret)
          /\ idx' = idx + 1
          /\ UNCHANGED <<allPc, allErr>>
  /\ pc' = "idle"
  /\ input' = <<>>
  /\ maddr' = <<>>
  /\ results' = <<>>
  /\ ret' = <<>>
  /\ err' = Nil
  /\ lookups' = <<>>
  /\ UNCHANGED <<matches, ipTab, txtTab, allIn, toResolve>>
  /\ UNCHANGED lookupVars
  /\ UNCHANGED codecVars
  /\ UNCHANGED call2Vars

\* the inner loop is over: the next round starts, or the outer loop ends
\* and outAddrs is returned
AllNextRound ==
  /\ allPc = "inner"
  /\ pc = "idle"
  /\ idx > Len(toResolve)
  /\ toResolve' = nextToResolve
  /\ nextToResolve' = <<>>
  /\ idx' = 1
  /\ allPc' = IF Len(nextToResolve) > 0 THEN "inner" ELSE "done"
  /\ UNCHANGED <<allIn, outAddrs, allErr, ipTab, txtTab>>
  /\ UNCHANGED callVars
  /\ UNCHANGED lookupVars
  /\ UNCHANGED codecVars
  /\ UNCHANGED call2Vars

NextAll ==
  \/ AllStart
  \/ AllCall
  \/ LoopExit
  \/ IterKeepOnly
  \/ IterIP
  \/ IterTXT
  \/ AllCollect
  \/ AllNextRound

\* the helper runs against the test zone, each host present in it or not
InitAll ==
  /\ \E a \in ZoneAnswers("A"), b \in ZoneAnswers("B") :
       ipTab = ("A" :> a) @@ ("B" :> b)
  /\ txtTab = TestTxtZone
  /\ InitCalls

SpecAll == InitAll /\ [][NextAll]_vars

\* resolveAllDNS is a sequential function: it keeps running until it returns
SpecAllFair == SpecAll /\ WF_vars(NextAll)

\* ===================================================================
\* Properties
\* ===================================================================
\* the resolvable protocols as the specification lists them
SpecResolvable == {"dns", "dns4", "dns6", "dnsaddr"}

HasResolvable(a) == \E i \in DOMAIN a : a[i].proto \in SpecResolvable

\* the records the backend holds for host h (none when the lookup failed
\* or was never issued)
RecordsOf(h) ==
  IF h \in DOMAIN ipTab /\ ipTab[h].err = Nil THEN ipTab[h].records ELSE <<>>

IsV4(r) == r.form \in {"v4", "v4in6"}

\* the records of h of one family, each as the component it is emitted as
V4Of(h) ==
  LET sel == SelectSeq(RecordsOf(h), LAMBDA r : IsV4(r))
  IN  [i \in DOMAIN sel |-> Comp("ip4", sel[i].a)]
V6Of(h) ==
  LET sel == SelectSeq(RecordsOf(h), LAMBDA r : ~IsV4(r))
  IN  [i \in DOMAIN sel |-> Comp("ip6", sel[i].a)]

\* a Resolve call has returned
Done == pc = "done"

\* a list of components, each as a one-component address
Singletons(l) == [i \in DOMAIN l |-> <<l[i]>>]

\* the lookup of host h was answered with a record list
Answered(h) == h \in DOMAIN ipTab /\ ipTab[h].err = Nil

\* the original statement of C1: any address without a resolvable
\* component, the nil address included, comes back as [a]
C1_Original ==
  (Done /\ ~HasResolvable(input)) => (ret = <<input>> /\ err = Nil)

\* C1: for every non-nil multiaddress a with no resolvable component,
\* Resolve(ctx, a) returns the single-element list [a] and no error.
C1_Preservation ==
  (Done /\ input # <<>> /\ ~HasResolvable(input)) => (ret = <<input>> /\ err = Nil)

C1_Witness ==
  /\ Done
  /\ Len(input) >= 2
  /\ ~HasResolvable(input)
  /\ ret = <<input>>

\* C2: Matches(a) is true iff some component of a has its protocol in
\* {dns, dns4, dns6, dnsaddr}.
C2_MatchesSound ==
  pc = "matched" => (matches <=> HasResolvable(input))

\* C3: Resolve(/dns4/H) returns exactly the IPv4 records of LookupIPAddr(H),
\* each as /ip4/<addr>, and Resolve(/dns6/H) exactly the non-IPv4 records,
\* each as /ip6/<addr>, in the backend's order and with duplicates kept.
C3_FamilyFilter ==
  (Done /\ Len(input) = 1 /\ input[1].proto \in {"dns4", "dns6"} /\ Answered(input[1].value))
    => /\ err = Nil
       /\ ret = IF input[1].proto = "dns4"
                THEN Singletons(V4Of(input[1].value))
                ELSE Singletons(V6Of(input[1].value))

C3_Witness ==
  /\ Done
  /\ Len(input) = 1
  /\ input[1].proto = "dns4"
  /\ Answered(input[1].value)
  /\ Len(ret) = 2
  /\ ret[1] = ret[2]

\* every record of h as the component of its family, in the backend's order
BothOf(h) ==
  LET recs == RecordsOf(h)
  IN  [i \in DOMAIN recs |-> Comp(IF IsV4(recs[i]) THEN "ip4" ELSE "ip6", recs[i].a)]

\* C4: Resolve(/dns/H) queries LookupIPAddr(H) and emits every IPv4 record
\* as /ip4/<addr> and every other record as /ip6/<addr>, in the backend's
\* order.
C4_DnsBothFamilies ==
  (Done /\ Len(input) = 1 /\ input[1].proto = "dns")
    => /\ lookups = <<[kind |-> "ip", name |-> input[1].value]>>
       /\ (Answered(input[1].value) => ret = Singletons(BothOf(input[1].value)))

\* the shape /dns4/A/<keep>/dns6/B, keep a run of non-resolvable components
Dns4KeepDns6(a) ==
  /\ Len(a) >= 2
  /\ a[1].proto = "dns4"
  /\ a[Len(a)].proto = "dns6"
  /\ \A i \in 2..(Len(a) - 1) : a[i].proto \notin SpecResolvable

\* C5: a single Resolve call resolves only the first resolvable component:
\* Resolve(/dns4/A/quic/dns6/B) returns /ip4/a_i/quic/dns6/B for each IPv4
\* record a_i of A, the dns6 component left as it is.
C5_ResolveOnlyOnce ==
  (Done /\ Len(input) = 3 /\ Dns4KeepDns6(input) /\ Answered(input[1].value))
    => ret = [i \in DOMAIN V4Of(input[1].value) |->
                <<V4Of(input[1].value)[i]>> \o Tail(input)]

\* both lookups of /dns4/A/.../dns6/B were answered with record lists (the
\* second is not issued when A has no IPv4 record)
BothAnswered(a) ==
  /\ Answered(a[1].value)
  /\ a[Len(a)].value \in DOMAIN ipTab => Answered(a[Len(a)].value)

\* C6: for /dns4/A/dns6/B, with n IPv4 records for A and m non-IPv4 records
\* for B, one Resolve call returns exactly n*m addresses, one for each pair
\* of an A record and a B record.
C6_CrossCardinality ==
  (Done /\ Len(input) = 2 /\ Dns4KeepDns6(input) /\ BothAnswered(input))
    => LET as == V4Of(input[1].value)
           bs == V6Of(input[2].value)
       IN  /\ err = Nil
           /\ Len(ret) = Len(as) * Len(bs)
           /\ \A i \in DOMAIN as : \A j \in DOMAIN bs :
                \E k \in DOMAIN ret : ret[k] = <<as[i], bs[j]>>

C6_Witness ==
  /\ Done
  /\ Len(input) = 2
  /\ Dns4KeepDns6(input)
  /\ BothAnswered(input)
  /\ Len(V4Of(input[1].value)) = 2
  /\ Len(V6Of(input[2].value)) = 2
  /\ Len(ret) = 4

Alternatives(c) ==
  IF c.proto = "dns4" THEN V4Of(c.value)
  ELSE IF c.proto = "dns6" THEN V6Of(c.value)
  ELSE <<c>>

\* the full expansion of an address, first component major
RECURSIVE FullCross(_)
FullCross(a) ==
  IF a = <<>> THEN << <<>> >>
  ELSE LET alts == Alternatives(Head(a))
           rest == FullCross(Tail(a))
           m == Len(rest)
       IN  [k \in 1..(Len(alts) * m) |->
              <<alts[((k - 1) \div m) + 1]>> \o rest[((k - 1) % m) + 1]]

\* every resolvable component of a is dns4 or dns6
OnlyDns46(a) == \A i \in DOMAIN a : a[i].proto \notin {"dns", "dnsaddr"}

C8_Outputs ==
  (allPc = "done" /\ allIn # <<>> /\ OnlyDns46(allIn) /\ allErr = Nil)
    => /\ outAddrs = FullCross(allIn)
       /\ \A i \in DOMAIN outAddrs : ~HasResolvable(outAddrs[i])

\* C8: the resolveAllDNS loop terminates for every address whose resolvable
\* components are all dns4/dns6, and what it returns (when no lookup fails)
\* is the full cross product, first component major, with no resolvable
\* component left.
C8_ResolveAllTerminates ==
  /\ [] C8_Outputs
  /\ (allPc = "inner" /\ OnlyDns46(allIn)) ~> (allPc = "done")

C8_Witness ==
  /\ allPc = "done"
  /\ allErr = Nil
  /\ OnlyDns46(allIn)
  /\ Len(allIn) = 3
  /\ Len(outAddrs) = 4
  /\ Cardinality({outAddrs[i] : i \in DOMAIN outAddrs}) = 4

\* the position of the only resolvable component of a, 0 when a has none
\* or several
OnlyResolvableAt(a) ==
  LET ks == {i \in DOMAIN a : a[i].proto \in SpecResolvable}
  IN  IF Cardinality(ks) = 1 THEN CHOOSE i \in ks : TRUE ELSE 0

\* C9: for P/dnsX/H/T with dnsX in {dns4, dns6, dns} and P, T runs of
\* non-resolvable components, every output starts with P and ends with T and
\* has one component where the DNS component was: only that one is replaced.
C9_Frame ==
  LET k == OnlyResolvableAt(input)
  IN  (Done /\ k # 0 /\ input[k].proto \in {"dns4", "dns6", "dns"})
        => \A n \in DOMAIN ret :
             /\ Len(ret[n]) = Len(input)
             /\ SubSeq(ret[n], 1, k - 1) = SubSeq(input, 1, k - 1)
             /\ SubSeq(ret[n], k + 1, Len(input)) = SubSeq(input, k + 1, Len(input))
             /\ input[k].proto = "dns4" => ret[n][k].proto = "ip4"
             /\ input[k].proto = "dns6" => ret[n][k].proto = "ip6"

C9_Witness ==
  /\ Done
  /\ Len(input) = 3
  /\ OnlyResolvableAt(input) = 2
  /\ input[2].proto = "dns6"
  /\ input[1] # input[3]
  /\ Len(ret) = 2

\* the last n components of r
LastN(r, n) == SubSeq(r, Len(r) - n + 1, Len(r))

\* C10: for /dnsaddr/H/<trailer> with a non-empty trailer, the last
\* |trailer| components of every output equal the trailer.
C10_TrailerExact ==
  (Done /\ Len(input) >= 2 /\ input[1].proto = "dnsaddr")
    => \A n \in DOMAIN ret :
         /\ Len(ret[n]) >= Len(input) - 1
         /\ LastN(ret[n], Len(input) - 1) = Tail(input)

C10_Witness ==
  /\ Done
  /\ Len(input) = 3
  /\ input[1].proto = "dnsaddr"
  /\ Len(ret) >= 1
  /\ Len(ret[1]) > 2

\* the texts of the records that carry the prefix, spell a multiaddress and
\* end with T, in the order of the response
TxtExpected(records, T) ==
  LET sel == SelectSeq(records, LAMBDA r :
               /\ r.prefix = "dnsaddr="
               /\ \A i \in DOMAIN r.text : r.text[i].proto \in KnownProtocols
               /\ Len(r.text) >= Len(T)
               /\ LastN(r.text, Len(T)) = T)
  IN  [i \in DOMAIN sel |-> sel[i].text]

\* C11: for /dnsaddr/H/T, Resolve looks up "_dnsaddr."+H once and returns,
\* in record order, exactly the multiaddresses of the prefixed records that
\* end with T, each unchanged: T is not appended and a resolvable component
\* inside a record is left as it is.
C11_DnsaddrSublist ==
  (Done /\ input # <<>> /\ input[1].proto = "dnsaddr")
    => LET name == "_dnsaddr." \o input[1].value
       IN  /\ lookups = <<[kind |-> "txt", name |-> name]>>
           /\ name \in DOMAIN txtTab
           /\ txtTab[name].err = Nil
                => /\ err = Nil
                   /\ ret = TxtExpected(txtTab[name].records, Tail(input))

C11_Witness ==
  /\ Done
  /\ Len(input) = 2
  /\ input[1].proto = "dnsaddr"
  /\ input[2].proto = "quic"
  /\ Len(ret) = 2
  /\ ret[1] = <<input[2]>>
  /\ HasResolvable(ret[2])

\* the records of the response to the lookup of /dnsaddr/H
TxtRecordsOf(a) == txtTab["_dnsaddr." \o a[1].value].records

\* the lookup of the leading /dnsaddr/H of the input was answered
TxtAnswered ==
  /\ Done
  /\ input # <<>>
  /\ input[1].proto = "dnsaddr"
  /\ ("_dnsaddr." \o input[1].value) \in DOMAIN txtTab
  /\ txtTab["_dnsaddr." \o input[1].value].err = Nil

\* C12: a record with fewer components than the trailer of /dnsaddr/H/T is
\* skipped; when every record is that short, Resolve returns the empty list
\* and no error.
C12_ShortSkipped ==
  TxtAnswered
    => LET recs == TxtRecordsOf(input)
           long == {i \in DOMAIN recs : Len(recs[i].text) >= Len(input) - 1}
       IN  /\ err = Nil
           /\ Len(ret) <= Cardinality(long)
           /\ long = {} => ret = <<>>

C12_Witness ==
  /\ TxtAnswered
  /\ Len(input) = 3
  /\ Len(TxtRecordsOf(input)) = 2
  /\ \A i \in DOMAIN TxtRecordsOf(input) :
       /\ TxtRecordsOf(input)[i].prefix = "dnsaddr="
       /\ TxtRecordsOf(input)[i].text = <<Comp("quic", "")>>
  /\ input[2] = Comp("quic", "")
  /\ input[3] = Comp("quic", "")
  /\ ret = <<>>
  /\ err = Nil

\* the position of the first component of a that Resolve resolves, 0 if none
FirstLookupAt(a) ==
  LET ks == {i \in DOMAIN a : a[i].proto \in {"dns4", "dns6", "dnsaddr"}}
  IN  IF ks = {} THEN 0 ELSE CHOOSE i \in ks : \A j \in ks : i <= j

\* a record Resolve cannot use: no prefix, or no multiaddress after it
BadRecord(r) ==
  \/ r.prefix # "dnsaddr="
  \/ \E i \in DOMAIN r.text : r.text[i].proto \notin KnownProtocols

\* C13: a TXT record without the dnsaddr= prefix, or whose value is no
\* multiaddress, is skipped: Resolve reports no error and returns what the
\* other records of the response give, each behind the kept prefix.
C13_BadRecordsSkipped ==
  LET k == FirstLookupAt(input)
  IN  (Done /\ k # 0 /\ input[k].proto = "dnsaddr"
        /\ ("_dnsaddr." \o input[k].value) \in DOMAIN txtTab
        /\ txtTab["_dnsaddr." \o input[k].value].err = Nil)
        => LET recs == txtTab["_dnsaddr." \o input[k].value].records
               good == SelectSeq(recs, LAMBDA r : ~BadRecord(r))
               rest == TxtExpected(good, SubSeq(input, k + 1, Len(input)))
           IN  /\ err = Nil
               /\ ret = [i \in DOMAIN rest |-> SubSeq(input, 1, k - 1) \o rest[i]]

C13_Witness ==
  LET k == FirstLookupAt(input)
  IN  /\ Done
      /\ k = 2
      /\ input[k].proto = "dnsaddr"
      /\ ("_dnsaddr." \o input[k].value) \in DOMAIN txtTab
      /\ LET recs == txtTab["_dnsaddr." \o input[k].value].records
         IN  /\ Len(recs) = 2
             /\ BadRecord(recs[1])
             /\ ~BadRecord(recs[2])
      /\ Len(ret) = 1
      /\ err = Nil

\* the number of components of a up to position p that Resolve resolves
RankOf(a, p) ==
  Cardinality({j \in 1..p : a[j].proto \in {"dns4", "dns6", "dnsaddr"}})

\* the component at position p of the input was looked up and answered: it
\* is resolvable, no dnsaddr component stands before it, and the log of
\* lookups reaches it
AnsweredAt(p) ==
  /\ input[p].proto \in {"dns4", "dns6", "dnsaddr"}
  /\ \A j \in 1..(p - 1) : input[j].proto # "dnsaddr"
  /\ RankOf(input, p) <= Len(lookups)
  /\ IF input[p].proto = "dnsaddr"
     THEN /\ ("_dnsaddr." \o input[p].value) \in DOMAIN txtTab
          /\ txtTab["_dnsaddr." \o input[p].value].err = Nil
     ELSE Answered(input[p].value)

\* what the component at position p resolves to
ResolvedAt(p) ==
  IF input[p].proto = "dnsaddr"
  THEN TxtExpected(txtTab["_dnsaddr." \o input[p].value].records,
                   SubSeq(input, p + 1, Len(input)))
  ELSE IF input[p].proto = "dns4" THEN Singletons(V4Of(input[p].value))
  ELSE Singletons(V6Of(input[p].value))

\* C14: when a resolvable component resolves to nothing (no record of its
\* family, no dnsaddr record matching the trailer), Resolve returns the
\* empty list and no error, whatever the earlier components gave, and its
\* lookup is the last one of the call.
C14_EmptyResolved ==
  Done => \A p \in DOMAIN input :
            (AnsweredAt(p) /\ ResolvedAt(p) = <<>>)
              => /\ ret = <<>>
                 /\ err = Nil
                 /\ Len(lookups) = RankOf(input, p)

C14_Witness ==
  /\ Done
  /\ Len(input) = 3
  /\ RankOf(input, 3) = 3
  /\ AnsweredAt(1)
  /\ ResolvedAt(1) # <<>>
  /\ AnsweredAt(2)
  /\ ResolvedAt(2) = <<>>
  /\ ret = <<>>
  /\ err = Nil

\* the answer of the backend to the i-th lookup of the call
AnswerOf(i) ==
  IF lookups[i].kind = "ip" THEN ipTab[lookups[i].name] ELSE txtTab[lookups[i].name]

\* C15: when a backend call of Resolve returns an error, Resolve returns
\* that error and no address, and the failed call is the last lookup.
C15_BackendError ==
  Done => \A i \in DOMAIN lookups :
            AnswerOf(i).err # Nil
              => /\ err = AnswerOf(i).err
                 /\ ret = <<>>
                 /\ i = Len(lookups)

C15_Witness ==
  /\ Done
  /\ Len(input) = 3
  /\ RankOf(input, 3) = 3
  /\ Len(lookups) = 2
  /\ AnswerOf(1).err = Nil
  /\ lookups[2].kind = "txt"
  /\ AnswerOf(2).err # Nil
  /\ err = AnswerOf(2).err

\* C16: the list Resolve returns has at most maxResolvedAddrs entries, and
\* exactly that many for /dns4/H when the backend holds more IPv4 records.
C16_ResultBound ==
  Done => /\ Len(ret) <= maxResolvedAddrs
          /\ (Len(input) = 1 /\ Len(V4Of(input[1].value)) > maxResolvedAddrs)
               => Len(ret) = maxResolvedAddrs

C18_NilInput ==
  (Done /\ input = <<>>) => (ret = <<>> /\ err = Nil /\ lookups = <<>>)

C18_Witness ==
  /\ Done
  /\ input = <<>>
  /\ Len(ret) = 0
  /\ ipTab = <<>>

\* Resolver.LookupIPAddr has returned
Returned == lkPc = "returned"

\* C19: a name that is not answered offline is looked up in one backend:
\* that of the longest configured domain whose labels are the last labels
\* of the name (the name itself counts), the default backend when there is
\* none; the records returned are that backend's.
C19_LongestSuffix ==
  (Returned /\ lkCalls # <<>>)
    => /\ Len(lkCalls) = 1
       /\ lkCalls[1].name = host
       /\ LET b == lkCalls[1].backend
              ends(k) == Len(k) <= Len(host) /\ LastN(host, Len(k)) = k
          IN  /\ b = <<>> \/ (b \in custom /\ ends(b))
              /\ \A k \in custom : ends(k) => Len(k) <= Len(b)
              /\ \A i \in DOMAIN lkRet : lkRet[i].groups = <<192, 0, 2, Len(b)>>
       /\ lkErr = Nil

C19_Witness ==
  /\ Returned
  /\ custom = {<<<<"custom">>, <<"test">>>>, <<<<"more">>, <<"custom">>, <<"test">>>>}
  /\ host = <<<<"some">>, <<"more">>, <<"custom">>, <<"test">>>>
  /\ lkCalls = <<[backend |-> <<<<"more">>, <<"custom">>, <<"test">>>>, name |-> host]>>
  /\ Len(lkRet) = 1

\* the addresses the encoded labels of the host names stand for
ForgeExpected ==
  (<<"1", "0", "0", "1">> :> [fam |-> "v4", groups |-> <<1, 0, 0, 1>>])
    @@ (<<"0", "", "1">> :> [fam |-> "v6", groups |-> <<0, 0, 0, 0, 0, 0, 0, 1>>])

HeldFirst == {<<"zz", "1">>, <<"custom">>, <<"some">>}
UnheldFirst == {<<"com">>}

\* C21: a name of the p2p-forge shape (peer ID in the second label) whose
\* first label decodes as no address is handed to the configured backend:
\* the lookup returns that backend's records, or none when it holds none,
\* and never the invalid-IP-encoding error.
C21_ForgeFallThrough ==
  (Returned /\ Len(host) >= 3 /\ host[2] = PeerID /\ host[1] \notin DOMAIN ForgeExpected)
    => /\ lkErr = Nil
       /\ Len(lkCalls) = 1
       /\ lkCalls[1].name = host
       /\ host[1] \in HeldFirst
            => lkRet = <<[fam |-> "v4", groups |-> <<192, 0, 2, Len(lkCalls[1].backend)>>]>>
       /\ host[1] \in UnheldFirst => lkRet = <<>>

C21_Witness ==
  /\ Returned
  /\ host = <<<<"zz", "1">>, PeerID, <<"custom">>, <<"test">>>>
  /\ custom = KeyPool
  /\ lkErr = Nil
  /\ lkCalls = <<[backend |-> <<<<"custom">>, <<"test">>>>, name |-> host]>>
  /\ Len(lkRet) = 1

\* the labels that are CIDs of the libp2p-key codec
LibP2PKeys == {PeerID, <<ShortestKey>>, <<TooShortKey>>}

\* the p2p-forge shape: 52 characters, three labels, and a libp2p-key CID
\* of 42 characters as second label
ForgeShape(h) ==
  /\ DomainLen(h) >= 52
  /\ Len(h) >= 3
  /\ h[2] \in LibP2PKeys
  /\ Len(h[2][1]) >= 42

\* C22: parseP2PForgeDomain returns the labels of a domain of at least 52
\* characters and three labels whose second label is a libp2p-key CID of at
\* least 42 characters, and none for any other domain (peer ID elsewhere,
\* no suffix, short, base58 or wrong-codec peer ID), in which case the
\* lookup goes to the backend.
C22_ParseForge ==
  Returned
    => /\ ForgeShape(host) => lkParts = host
       /\ ~ForgeShape(host)
            => /\ lkParts = <<>>
               /\ Len(lkCalls) = 1
               /\ lkCalls[1].name = host

C22_Witness ==
  /\ Returned
  /\ host = <<<<"1", "0", "0", "1">>, <<"some">>, PeerID, <<"com">>>>
  /\ lkParts = <<>>
  /\ Len(lkCalls) = 1

\* the addresses of the labels of the priority tests
PriorityExpected ==
  (<<"10", "0", "0", "1">> :> [fam |-> "v4", groups |-> <<10, 0, 0, 1>>])
    @@ (<<"2001", "db8", "", "a", "b">> :>
          [fam |-> "v6", groups |-> <<8193, 3512, 0, 0, 0, 0, 10, 11>>])

\* the label is written as an IPv6 address: eight groups, or a zero run
LooksIPv6(l) == Len(l) = 8 \/ \E i \in DOMAIN l : l[i] = ""

\* C23: resolveP2PForge returns one address, that of the IPv6 decoding of
\* the first label when it succeeds and that of the IPv4 decoding
\* otherwise: 10-0-0-1, which the IPv6 decoder rejects, gives 10.0.0.1, and
\* 2001-db8--a-b gives 2001:db8::a:b.
C23_IPv6First ==
  codecPc = "forge"
    => /\ codecIn \in DOMAIN PriorityExpected
            => codecOut = Answer(<<PriorityExpected[codecIn]>>, Nil)
       /\ codecOut.err = Nil
            => /\ Len(codecOut.records) = 1
               /\ Len(codecIn) >= 2
                    => codecOut.records[1].fam = (IF LooksIPv6(codecIn) THEN "v6" ELSE "v4")
       /\ codecOut.err # Nil => codecOut.records = <<>>

C23_Witness ==
  /\ codecPc = "forge"
  /\ codecIn = <<"10", "0", "0", "1">>
  /\ codecOut.err = Nil
  /\ codecOut.records = <<[fam |-> "v4", groups |-> <<10, 0, 0, 1>>]>>

\* what one Resolve call alone returns for the rest m of an address and
\* the results res gathered so far, over the zone of the backend
RECURSIVE Alone(_, _)
Alone(m, res) ==
  IF m = <<>> THEN [ret |-> res, err |-> Nil]
  ELSE LET k == FirstLookupAt(m)
           keep == IF k = 0 THEN m ELSE SubSeq(m, 1, k - 1)
           res1 == IF keep = <<>> THEN res
                   ELSE IF res = <<>> THEN <<keep>>
                   ELSE [i \in DOMAIN res |-> res[i] \o keep]
       IN  IF k = 0 THEN [ret |-> res1, err |-> Nil]
           ELSE LET c == m[k]
                    rest == SubSeq(m, k + 1, Len(m))
                    ans == IF c.proto = "dnsaddr" THEN txtTab["_dnsaddr." \o c.value]
                           ELSE ipTab[c.value]
                    found == IF c.proto = "dnsaddr" THEN TxtExpected(ans.records, rest)
                             ELSE IF c.proto = "dns4" THEN Singletons(V4Of(c.value))
                             ELSE Singletons(V6Of(c.value))
                    res2 == IF res1 = <<>> THEN found
                            ELSE [n \in 1..(Len(res1) * Len(found)) |->
                                    res1[((n - 1) \div Len(found)) + 1]
                                      \o found[((n - 1) % Len(found)) + 1]]
                IN  IF ans.err # Nil THEN [ret |-> <<>>, err |-> ans.err]
                    ELSE IF found = <<>> THEN [ret |-> <<>>, err |-> Nil]
                    ELSE Alone(IF c.proto = "dnsaddr" THEN <<>> ELSE rest, res2)

\* each call that has returned has the result of a call running alone
C24_SameAsAlone ==
  /\ pc = "done" => [ret |-> ret, err |-> err] = Alone(input, <<>>)
  /\ pc2 = "done" => [ret |-> ret2, err |-> err2] = Alone(input2, <<>>)

\* a step of a call leaves the backend and the routing table as they are
C24_ResolverUnchanged ==
  /\ ipTab' = ipTab
  /\ txtTab' = txtTab
  /\ lkPc # "new" => custom' = custom

\* C24: two Resolve calls running at the same time on one resolver share no
\* mutable state: whatever the interleaving of their steps, each returns
\* what it would return alone, and no step of a call changes the resolver,
\* its backend or its routing table.
C24_NoSharedState ==
  /\ [] C24_SameAsAlone
  /\ [][C24_ResolverUnchanged]_vars

C24_Witness ==
  /\ pc = "done"
  /\ pc2 = "loop"
  /\ results2 # <<>>
  /\ maddr2 # <<>>
  /\ input # input2
  /\ Len(input) = 3
  /\ Len(ret) = 4
  /\ custom # {}

\* the label "0--"+X, X the rest of it
HasZeroPrefix(l) == Len(l) >= 3 /\ l[1] = "0" /\ l[2] = ""

\* the label X+"--0"
HasZeroSuffix(l) == Len(l) >= 3 /\ l[Len(l)] = "0" /\ l[Len(l) - 1] = ""

\* the addresses of the examples
ZeroExamples ==
  (<<"0", "", "1">> :> <<0, 0, 0, 0, 0, 0, 0, 1>>)
    @@ (<<"", "", "1">> :> <<0, 0, 0, 0, 0, 0, 0, 1>>)
    @@ (<<"2001", "db8", "", "0">> :> <<8193, 3512, 0, 0, 0, 0, 0, 0>>)
    @@ (<<"2001", "db8", "", "">> :> <<8193, 3512, 0, 0, 0, 0, 0, 0>>)

\* C25: the explicit 0 of a leading 0-- and of a trailing --0 is optional:
\* decodeIPv6("0--"+X) is what decodeIPv6("--"+X) is, and decodeIPv6(X+"--0")
\* what decodeIPv6(X+"--") is, none or the same address; 0--1 and --1 are
\* ::1, 2001-db8--0 and 2001-db8-- are 2001:db8::.
C25_OptionalZero ==
  codecPc = "v6"
    => /\ HasZeroPrefix(codecIn) => codecOut = decodeIPv6(<<"">> \o Tail(codecIn))
       /\ HasZeroSuffix(codecIn)
            => codecOut = decodeIPv6(SubSeq(codecIn, 1, Len(codecIn) - 1) \o <<"">>)
       /\ codecIn \in DOMAIN ZeroExamples
            => codecOut = [fam |-> "v6", groups |-> ZeroExamples[codecIn]]

C25_Witness ==
  /\ codecPc = "v6"
  /\ codecIn = <<"0", "", "1", "1", "1", "1", "1", "1", "1">>
  /\ codecOut = [fam |-> "v6", groups |-> <<0, 1, 1, 1, 1, 1, 1, 1>>]

\* the places of the text of label l where "--" stands: the empty fields
\* between two hyphens
DoubleHyphens(l) == {i \in 2..(Len(l) - 1) : l[i] = ""}

\* the label after the two steps that drop an explicit zero
AfterZeroSteps(l) ==
  LET a == IF HasZeroPrefix(l) THEN <<"">> \o Tail(l) ELSE l
  IN  IF HasZeroSuffix(a) THEN SubSeq(a, 1, Len(a) - 1) \o <<"">> ELSE a

\* C26: decodeIPv6 returns none for every label that, after the steps that
\* drop an explicit zero, has "--" in more than one place: no such label is
\* taken for an IPv6 address.
C26_OneZeroRun ==
  (codecPc = "v6" /\ Cardinality(DoubleHyphens(AfterZeroSteps(codecIn))) > 1)
    => codecOut = [fam |-> "none", groups |-> <<>>]

C26_Witness ==
  /\ codecPc = "v6"
  /\ codecIn = <<"0", "", "1", "", "0">>
  /\ codecOut.fam = "none"

\* the decimal texts of octets, and the hexadecimal texts of groups
OctetOf == ("0" :> 0) @@ ("1" :> 1) @@ ("2" :> 2) @@ ("5" :> 5) @@ ("10" :> 10)
             @@ ("192" :> 192) @@ ("255" :> 255)
GroupOf == ("1" :> 1) @@ ("ffff" :> 65535)

\* the label is the hyphen encoding of an IPv4 address
FourOctets(l) == Len(l) = 4 /\ \A i \in 1..4 : l[i] \in DOMAIN OctetOf

\* the IPv6 address of h groups x, then zeros, then t groups y
Addr6(h, x, t, y) ==
  [i \in 1..8 |-> IF i <= h THEN GroupOf[x] ELSE IF i > 8 - t THEN GroupOf[y] ELSE 0]

\* its hyphen encodings: the eight groups, and its zero run condensed to
\* "--", with the explicit 0 when the run is at an end
Encodings6(h, x, t, y) ==
  {[i \in 1..8 |-> IF i <= h THEN x ELSE IF i > 8 - t THEN y ELSE "0"]}
    \cup (IF h + t < 8 /\ h > 0 /\ t > 0 THEN {Run(h, x) \o <<"">> \o Run(t, y)} ELSE {})
    \cup (IF h + t < 8 /\ h = 0 /\ t > 0 THEN {<<"0", "">> \o Run(t, y)} ELSE {})
    \cup (IF h + t < 8 /\ t = 0 /\ h > 0 THEN {Run(h, x) \o <<"", "0">>} ELSE {})
    \cup (IF h = 0 /\ t = 0 THEN {<<"0", "", "0">>} ELSE {})

\* the address is an IPv4-mapped one
Mapped(g) == (\A i \in 1..5 : g[i] = 0) /\ g[6] = 65535

\* C27: codec round trip: decodeIPv4 of the hyphen encoding of an IPv4
\* address is that address, and decodeIPv4 is none for a label that is not
\* four decimal octets; decodeIPv6 of the hyphen encoding of an IPv6 address
\* is that address, for the eight groups as for the condensed, the leading
\* 0-- and the trailing --0 form.
C27_RoundTrip ==
  /\ codecPc = "v4"
       => IF FourOctets(codecIn)
          THEN codecOut = [fam |-> "v4", groups |-> [i \in 1..4 |-> OctetOf[codecIn[i]]]]
          ELSE codecOut = [fam |-> "none", groups |-> <<>>]
  /\ codecPc = "v6"
       => \A h \in 0..8, t \in 0..8, x \in DOMAIN GroupOf, y \in DOMAIN GroupOf :
            (h + t <= 8 /\ ~Mapped(Addr6(h, x, t, y)) /\ codecIn \in Encodings6(h, x, t, y))
              => codecOut = [fam |-> "v6", groups |-> Addr6(h, x, t, y)]

\* the positions of the components of a that a call looks up: the dns4,
\* dns6 and dnsaddr components up to the first dnsaddr one
LookedUp(a) ==
  {i \in DOMAIN a :
     /\ a[i].proto \in {"dns4", "dns6", "dnsaddr"}
     /\ \A j \in 1..(i - 1) : a[j].proto # "dnsaddr"}

\* the n-th of them, from the left
NthLookedUp(a, n) ==
  CHOOSE i \in LookedUp(a) : Cardinality({j \in LookedUp(a) : j < i}) = n - 1

\* the backend call for component c
LookupFor(c) ==
  IF c.proto = "dnsaddr" THEN [kind |-> "txt", name |-> "_dnsaddr." \o c.value]
  ELSE [kind |-> "ip", name |-> c.value]

\* the lookup of the component at position p failed or resolved to nothing
StopsAt(p) ==
  LET ans == IF input[p].proto = "dnsaddr" THEN txtTab["_dnsaddr." \o input[p].value]
             ELSE ipTab[input[p].value]
  IN  ans.err # Nil \/ ResolvedAt(p) = <<>>

\* the lookups issued so far are those of the first components to look up,
\* in their order, and a call that has returned stopped at the first
\* failure or empty resolution, or made them all
C28_InOrder ==
  pc \in {"loop", "done"}
    => /\ Len(lookups) <= Cardinality(LookedUp(input))
       /\ \A n \in DOMAIN lookups : lookups[n] = LookupFor(input[NthLookedUp(input, n)])
       /\ \A n \in 1..(Len(lookups) - 1) : ~StopsAt(NthLookedUp(input, n))
       /\ (pc = "done" /\ Len(lookups) < Cardinality(LookedUp(input)))
            => (Len(lookups) > 0 /\ StopsAt(NthLookedUp(input, Len(lookups))))

\* a step issues at most one lookup, after those already issued
C28_OneAtATime ==
  \/ lookups' = lookups
  \/ lookups' = <<>>
  \/ /\ Len(lookups') = Len(lookups) + 1
     /\ SubSeq(lookups', 1, Len(lookups)) = lookups

\* C28: within one Resolve call the backend lookups are issued one at a
\* time, in the left-to-right order of the dns4, dns6 and dnsaddr
\* components of the input (LookupIPAddr(host), LookupTXT("_dnsaddr."+host)),
\* and end at the first dnsaddr component, the first backend error or the
\* first empty resolution: a component of a dnsaddr trailer is never looked
\* up.
C28_LookupOrder ==
  /\ [] C28_InOrder
  /\ [][C28_OneAtATime]_vars

C28_Witness ==
  /\ pc = "done"
  /\ input = <<Comp("dns6", "B"), Comp("dnsaddr", "A"), Comp("dns4", "A")>>
  /\ lookups = <<[kind |-> "ip", name |-> "B"], [kind |-> "txt", name |-> "_dnsaddr.A"]>>
  /\ ipTab["A"].err = Nil
  /\ txtTab["_dnsaddr.A"].err = Nil
  /\ Len(txtTab["_dnsaddr.A"].records) > 0

\* C29: every record the backend returns for host H is kept by exactly one
\* of Resolve(/dns4/H) and Resolve(/dns6/H): the IPv4 and IPv4-mapped ones by
\* the first, the others by the second, so the two outputs together have as
\* many entries as there are records.
C29_FamilyPartition ==
  (pc = "done" /\ pc2 = "done" /\ input[1].value = input2[1].value
     /\ Answered(input[1].value))
    => LET recs == ipTab[input[1].value].records
           four == {i \in DOMAIN recs : recs[i].form \in {"v4", "v4in6"}}
           six == {i \in DOMAIN recs : recs[i].form = "v6"}
       IN  /\ Len(ret) + Len(ret2) = Len(recs)
           /\ Len(ret) = Cardinality(four)
           /\ Len(ret2) = Cardinality(six)
           /\ \A i \in four : \E n \in DOMAIN ret : ret[n] = <<Comp("ip4", recs[i].a)>>
           /\ \A i \in six : \E n \in DOMAIN ret2 : ret2[n] = <<Comp("ip6", recs[i].a)>>
           /\ \A n \in DOMAIN ret : ret[n][1].proto = "ip4"
           /\ \A n \in DOMAIN ret2 : ret2[n][1].proto = "ip6"

C29_Witness ==
  /\ pc = "done"
  /\ pc2 = "done"
  /\ input = <<Comp("dns4", "A")>>
  /\ input2 = <<Comp("dns6", "A")>>
  /\ Answered("A")
  /\ ipTab["A"].records = <<[form |-> "v4in6", a |-> "b"], [form |-> "v6", a |-> "a"]>>
  /\ ret = <<<<Comp("ip4", "b")>>>>
  /\ ret2 = <<<<Comp("ip6", "a")>>>>

\* an iteration after which the loop goes on leaves a shorter address
C30_Decreases ==
  (pc = "loop" /\ pc' = "loop") => Len(maddr') < Len(maddr)

\* the loop is left with nothing to resolve in the remainder, with an
\* error, or with an empty resolution
C30_Exits ==
  (pc = "loop" /\ pc' = "done")
    => \/ \A i \in DOMAIN maddr : maddr[i].proto \notin {"dns4", "dns6", "dnsaddr"}
       \/ err' # Nil
       \/ (ret' = <<>> /\ err' = Nil)

\* C30: Resolve terminates for every multiaddress and every backend
\* response: each iteration strictly shortens the remaining address, and the
\* loop ends when the remainder is empty (as it is after a dnsaddr
\* component), on an error or on an empty resolution.
C30_Terminates ==
  /\ [][C30_Decreases /\ C30_Exits]_vars
  /\ (pc = "loop") ~> (pc = "done")

C30_Witness ==
  /\ pc = "done"
  /\ Len(input) = 3
  /\ Len(lookups) = 3
  /\ err = Nil
  /\ Len(ret) >= 2

====
